---- MODULE Spec2Model ----
(***************************************************************************)
(* Model of the DIM <-> ZeroMQ gateway of the oscilloscope server:         *)
(* ZmqCommunicator (router loop, subscribe loop, send_command, start and   *)
(* stop),                                                                  *)
(* the DIM command handlers that call send_command, and the                *)
(* fixed-capacity service buffers ProtectedDimService and ReplyService.    *)
(*                                                                         *)
(* Text is modelled as a sequence of byte values (ASCII codes); a C        *)
(* buffer of capacity C is a sequence of C bytes, C index i being element  *)
(* i + 1.                                                                  *)
(***************************************************************************)
EXTENDS Integers, Sequences, FiniteSets, TLC

(***************************************************************************)
(* Bounds of the model.                                                    *)
(***************************************************************************)
\* inbound command-channel frames the router loop receives in one run
MaxCmdFrames == 2
\* DIM command invocations (commandHandler calls) in one run
MaxCalls == 2
\* topic-channel frames the subscribe loop receives in one run
MaxTopicFrames == 2
\* update calls of the stand-alone buffer exercise
MaxUpdates == 2
\* frames each loop receives in the runs of all the threads together
MaxAllFrames == 1

(***************************************************************************)
(* Buffer capacities.  DimServices.h gives the reply buffer 2048 bytes and *)
(* Constants.h gives the state and time-division buffers 256 and the       *)
(* waveform buffers 130000.  The model scales them down; the reply buffer  *)
(* stays longer than every fixed text the program writes to it, as it is   *)
(* in the program.                                                         *)
(***************************************************************************)
REPLY_BUFFER_SIZE == 40
STATE_BUFFER_SIZE == 8
WAVEFORM_BUFFER_SIZE == 6

(***************************************************************************)
(* Program constants.                                                      *)
(***************************************************************************)
OSC_NUM_CHANNELS == 4
INT_MAX == 2147483647

NUL == 0

NOT_CONNECTED_TEXT == <<69, 114, 114, 111, 114, 58, 32, 80, 121, 116, 104, 111, 110, 32, 99, 108, 105, 101, 110, 116, 32, 110, 111, 116, 32, 99, 111, 110, 110, 101, 99, 116, 101, 100, 46>>  \* "Error: Python client not connected."
MALFORMED_TEXT == <<69, 114, 114, 111, 114, 58, 32, 77, 97, 108, 102, 111, 114, 109, 101, 100, 32, 74, 83, 79, 78, 32, 102, 114, 111, 109, 32, 80, 121, 116, 104, 111, 110, 46>>  \* "Error: Malformed JSON from Python."
ERROR_PREFIX == <<69, 114, 114, 111, 114, 58, 32>>  \* "Error: "
DEFAULT_PAYLOAD == <<91, 101, 109, 112, 116, 121, 93>>  \* "[empty]"
DEFAULT_MESSAGE == <<91, 110, 111, 32, 109, 115, 103, 93>>  \* "[no msg]"
ZMQ_STATE_TOPIC == <<98, 97, 99, 107, 101, 110, 100, 95, 115, 116, 97, 116, 101>>  \* "backend_state"
ZMQ_TIMEDIV_TOPIC == <<119, 97, 118, 101, 102, 111, 114, 109, 95, 116, 105, 109, 101, 100, 105, 118>>  \* "waveform_timediv"
ZMQ_WAVEFORM_TOPIC_BASE == <<119, 97, 118, 101, 102, 111, 114, 109, 95, 99, 104>>  \* "waveform_ch"

(***************************************************************************)
(* Strings.                                                                *)
(***************************************************************************)
Fill(n, c) == [i \in 1..n |-> c]

IsPrefix(p, s) == Len(p) <= Len(s) /\ SubSeq(s, 1, Len(p)) = p

\* strlen(s.c_str()): the bytes of s before its first null byte
CLen(s) ==
    IF \E i \in 1..Len(s) : s[i] = NUL
    THEN (CHOOSE i \in 1..Len(s) : s[i] = NUL /\ \A k \in 1..(i - 1) : s[k] # NUL) - 1
    ELSE Len(s)

\* the C string a buffer holds: its bytes before the first null byte
CStr(buf) == SubSeq(buf, 1, CLen(buf))

\* std::to_string of a channel number 1..9
to_string(k) == <<48 + k>>

(***************************************************************************)
(* The service buffers.                                                    *)
(***************************************************************************)
WaveformIdx == 0..(OSC_NUM_CHANNELS - 1)
\* waveform_svcs[i]
WaveformName(i) == <<"ch0", "ch1", "ch2", "ch3">>[i + 1]
ProtectedBufs == {"state", "timediv"} \cup {WaveformName(i) : i \in WaveformIdx}
BufNames == {"reply"} \cup ProtectedBufs

Capacity(b) ==
    IF b = "reply" THEN REPLY_BUFFER_SIZE
    ELSE IF b \in {"state", "timediv"} THEN STATE_BUFFER_SIZE
    ELSE WAVEFORM_BUFFER_SIZE

\* strncpy(dest, src, n): the first n bytes at dest become the bytes of src up
\* to its terminator, padded with null bytes; the rest of dest is kept.  With
\* n beyond the end of dest the bytes after it are written too, which the
\* result shows by being longer than dest.
StrncpyNoPad(dest, src, n) ==
    LET len == CLen(src) IN
    [i \in 1..Len(dest) |->
        IF i <= n /\ i <= len THEN src[i] ELSE dest[i]]
Strncpy(dest, src, n) ==
    LET len == CLen(src) IN
    [i \in 1..(IF n > Len(dest) THEN n ELSE Len(dest)) |->
        IF i <= n THEN (IF i <= len THEN src[i] ELSE NUL) ELSE dest[i]]

\* the count each update hands to strncpy
CopyCount(b) ==
    IF b = "reply" THEN Capacity(b) ELSE Capacity(b) - 1

\* buffer.back() = '\0' / buffer[sizeof(buffer) - 1] = '\0'
Terminate(buf) == [buf EXCEPT ![Len(buf)] = NUL]

(***************************************************************************)
(* std::stoi: leading white space, an optional sign, then decimal digits;  *)
(* what follows the digits is ignored.  It throws when there is no digit   *)
(* (invalid_argument) or the value does not fit an int (out_of_range).     *)
(***************************************************************************)
IsSpace(c) == c = 32 \/ (9 <= c /\ c <= 13)
IsDigit(c) == 48 <= c /\ c <= 57

\* the index of the first byte of s at or after i that is not white space
RECURSIVE SkipSpace(_, _)
SkipSpace(s, i) ==
    IF i <= Len(s) /\ IsSpace(s[i]) THEN SkipSpace(s, i + 1) ELSE i

\* the index after the last digit of the run of digits that starts at i
RECURSIVE DigitsEnd(_, _)
DigitsEnd(s, i) ==
    IF i <= Len(s) /\ IsDigit(s[i]) THEN DigitsEnd(s, i + 1) ELSE i

\* strtol's accumulation of the digits s[i..j-1], kept negative so that INT_MIN
\* is reached; 1 stands for a value that does not fit an int
RECURSIVE DigitsVal(_, _, _, _)
DigitsVal(s, i, j, acc) ==
    IF i >= j THEN acc
    ELSE IF acc = 1 THEN 1
    ELSE IF (0 - acc) < INT_MAX \div 10
            \/ ((0 - acc) = INT_MAX \div 10 /\ s[i] - 48 <= (INT_MAX % 10) + 1)
         THEN DigitsVal(s, i + 1, j, 10 * acc - (s[i] - 48))
         ELSE DigitsVal(s, i + 1, j, 1)

Stoi(s) ==
    LET i0  == SkipSpace(s, 1)
        neg == i0 <= Len(s) /\ s[i0] = 45
        i1  == IF i0 <= Len(s) /\ s[i0] \in {43, 45} THEN i0 + 1 ELSE i0
        j   == DigitsEnd(s, i1)
        mag == DigitsVal(s, i1, j, 0)
    IN  IF j = i1 \/ mag = 1 \/ (~neg /\ mag = (0 - INT_MAX) - 1)
        THEN [throws |-> TRUE, val |-> 0]
        ELSE [throws |-> FALSE, val |-> IF neg THEN mag ELSE 0 - mag]

(***************************************************************************)
(* subscribe_loop's routing of a topic: which buffer is updated, or that   *)
(* the frame is dropped, or dropped with an entry on std::cerr.            *)
(***************************************************************************)
Suffix(topic) == SubSeq(topic, Len(ZMQ_WAVEFORM_TOPIC_BASE) + 1, Len(topic))

ChannelOfRaw(topic) == Stoi(Suffix(topic)).val
ChannelOf(topic) == Stoi(Suffix(topic)).val - 1

RouteTopic(topic) ==
    IF topic = ZMQ_STATE_TOPIC THEN [act |-> "update", buf |-> "state"]
    ELSE IF topic = ZMQ_TIMEDIV_TOPIC THEN [act |-> "update", buf |-> "timediv"]
    ELSE IF IsPrefix(ZMQ_WAVEFORM_TOPIC_BASE, topic)
    THEN IF Stoi(Suffix(topic)).throws THEN [act |-> "log", buf |-> "none"]
         ELSE IF ChannelOf(topic) >= 0 /\ ChannelOf(topic) < OSC_NUM_CHANNELS
              THEN [act |-> "update", buf |-> WaveformName(ChannelOf(topic))]
              ELSE [act |-> "drop", buf |-> "none"]
    ELSE [act |-> "drop", buf |-> "none"]

\* start(): the topics the SUB socket is subscribed to (each a prefix filter)
WaveformTopic(i) == ZMQ_WAVEFORM_TOPIC_BASE \o to_string(i + 1)
Subscriptions ==
    {ZMQ_STATE_TOPIC, ZMQ_TIMEDIV_TOPIC} \cup {WaveformTopic(i) : i \in WaveformIdx}

(***************************************************************************)
(* nlohmann::json as router_loop uses it.  A payload is malformed (parse   *)
(* throws parse_error), a JSON value that is no object, or an object; each *)
(* field of an object is absent, a string, or a value of another type.     *)
(***************************************************************************)
Absent == [has |-> "absent", s |-> <<>>]
NonString == [has |-> "other", s |-> <<>>]
Str(v) == [has |-> "string", s |-> v]

\* j.value(key, default) throws type_error: j is no object (306), or the key is
\* there and its value is no string (302)
ValueThrows(j, key) == j.kind # "object" \/ j[key].has = "other"
ValueNoDefault(j, key, default) == j[key].s
Value(j, key, default) ==
    IF j[key].has = "string" THEN j[key].s ELSE default

\* json::parse(text) throws json::parse_error
ParseNeverFails(j) == FALSE
ParseFails(j) == j.kind = "malformed"

T_HANDSHAKE == <<104, 97, 110, 100, 115, 104, 97, 107, 101>>  \* "handshake"
T_REPLY == <<114, 101, 112, 108, 121>>  \* "reply"
S_OK == <<111, 107>>  \* "ok"

\* what one iteration of router_loop does with a received frame, after the
\* identity capture
RouterOutcomeNoTypeTest(frame) ==
    LET j == frame.body
    IN  IF frame.n < 3 THEN [act |-> "throw", text |-> <<>>]
        ELSE IF ParseFails(j) THEN [act |-> "update", text |-> MALFORMED_TEXT]
        ELSE [act |-> "update", text |-> DEFAULT_PAYLOAD]
RouterOutcome(frame) ==
    LET j == frame.body
        none  == [act |-> "none", text |-> <<>>]
        throw == [act |-> "throw", text |-> <<>>]
    IN  IF frame.n < 3 THEN throw  \* multipart_msg.at(2): std::out_of_range
        ELSE IF ParseFails(j) THEN [act |-> "update", text |-> MALFORMED_TEXT]
        ELSE IF ValueThrows(j, "type") THEN throw
        ELSE IF Value(j, "type", <<>>) = T_HANDSHAKE THEN none
        ELSE IF Value(j, "type", <<>>) = T_REPLY
        THEN IF ValueThrows(j, "status") THEN throw
             ELSE IF Value(j, "status", <<>>) = S_OK
             THEN IF ValueThrows(j, "payload") THEN throw
                  ELSE [act |-> "update",
                        text |-> Value(j, "payload", DEFAULT_PAYLOAD)]
             ELSE IF ValueThrows(j, "message") THEN throw
                  ELSE [act |-> "update",
                        text |-> ERROR_PREFIX \o Value(j, "message", DEFAULT_MESSAGE)]
        ELSE none

(***************************************************************************)
(* Inputs: the frames the peers can send and the commands DIM can invoke.  *)
(***************************************************************************)
\* routing identities of two workers; a ROUTER identity is never empty
ID_A == <<65>>
ID_B == <<66>>
Identities == {ID_A, ID_B}
\* a zmq::message_t of size 0
EmptyId == <<>>

TEXT_PI == <<51, 46, 49, 52>>  \* "3.14"
TEXT_RANGE == <<98, 97, 100, 32, 114, 97, 110, 103, 101>>  \* "bad range"
TEXT_WAVE == <<49, 46, 48, 59, 50>>  \* "1.0;2"
T_OTHER == <<101, 118, 101, 110, 116>>  \* "event"
S_ERROR == <<101, 114, 114, 111, 114>>  \* "error"
\* a text with a null byte inside: "a\0b"
TEXT_NUL == <<97, 0, 98>>
\* a text as long as the reply buffer
TEXT_LONG == Fill(REPLY_BUFFER_SIZE, 120)

Obj(type, status, payload, message) ==
    [kind |-> "object", type |-> type, status |-> status,
     payload |-> payload, message |-> message]
Malformed == [Obj(Absent, Absent, Absent, Absent) EXCEPT !.kind = "malformed"]
NonObject == [Obj(Absent, Absent, Absent, Absent) EXCEPT !.kind = "nonobject"]

CmdBodies ==
    { Malformed, NonObject,
      Obj(Str(T_HANDSHAKE), Absent, Absent, Absent),
      Obj(Str(T_OTHER), Str(S_OK), Str(TEXT_PI), Absent),
      Obj(Absent, Str(S_OK), Str(TEXT_PI), Absent),
      Obj(NonString, Absent, Absent, Absent),
      Obj(Str(T_REPLY), Str(S_OK), Str(TEXT_PI), Absent),
      Obj(Str(T_REPLY), Str(S_OK), Absent, Str(TEXT_RANGE)),
      Obj(Str(T_REPLY), Str(S_OK), Str(TEXT_LONG), Absent),
      Obj(Str(T_REPLY), Str(S_OK), NonString, Absent),
      Obj(Str(T_REPLY), Str(S_ERROR), Str(TEXT_PI), Str(TEXT_RANGE)),
      Obj(Str(T_REPLY), Str(S_ERROR), Str(TEXT_PI), Absent),
      Obj(Str(T_REPLY), Absent, Absent, Str(TEXT_RANGE)),
      Obj(Str(T_REPLY), NonString, Absent, Absent),
      Obj(Str(T_REPLY), Str(S_ERROR), Absent, NonString) }

\* a received multipart message: n parts, part 0 the identity, part 2 the body
CmdFrames ==
    [n : {3}, id : Identities, body : CmdBodies]
    \cup [n : {2, 4}, id : Identities, body : {Obj(Str(T_HANDSHAKE), Absent, Absent, Absent)}]
\* the frames of the runs that also run command handlers: one of each kind of
\* payload, and a frame with no third part
CoreBodies ==
    { Malformed,
      Obj(Str(T_HANDSHAKE), Absent, Absent, Absent),
      Obj(Str(T_OTHER), Str(S_OK), Str(TEXT_PI), Absent),
      Obj(Str(T_REPLY), Str(S_OK), Str(TEXT_PI), Absent) }
CoreFrames ==
    [n : {3}, id : Identities, body : CoreBodies]
    \cup [n : {2}, id : {ID_B}, body : {Obj(Str(T_HANDSHAKE), Absent, Absent, Absent)}]
\* the frames of the runs of both loops
LoopCmdFrames ==
    [n : {3}, id : {ID_A},
     body : {Malformed, NonObject, Obj(Str(T_HANDSHAKE), Absent, Absent, Absent)}]
\* the frames of the runs of all the threads together: one the loop answers
\* with an update of the reply buffer, and one it only captures
AllCmdFrames ==
    [n : {3}, id : {ID_A},
     body : {Malformed, Obj(Str(T_HANDSHAKE), Absent, Absent, Absent)}]
NoCmdFrame == [n |-> 0, id |-> EmptyId, body |-> Malformed]

Topics ==
    { ZMQ_STATE_TOPIC, ZMQ_TIMEDIV_TOPIC,
      ZMQ_STATE_TOPIC \o <<50>>,                    \* "backend_state2"
      WaveformTopic(0), WaveformTopic(2), WaveformTopic(3),
      WaveformTopic(2) \o <<97, 98, 99>>,           \* "waveform_ch3abc"
      WaveformTopic(0) \o <<48>>,                   \* "waveform_ch10"
      WaveformTopic(3) \o Fill(10, 57),             \* "waveform_ch49999999999"
      ZMQ_WAVEFORM_TOPIC_BASE,                      \* "waveform_ch"
      ZMQ_WAVEFORM_TOPIC_BASE \o <<48>>,            \* "waveform_ch0"
      ZMQ_WAVEFORM_TOPIC_BASE \o <<57>>,            \* "waveform_ch9"
      ZMQ_WAVEFORM_TOPIC_BASE \o <<45, 49>>,        \* "waveform_ch-1"
      ZMQ_WAVEFORM_TOPIC_BASE \o <<65, 66, 67>>,    \* "waveform_chABC"
      <<120>> }                                     \* "x"
TopicPayloads == {TEXT_WAVE, Fill(STATE_BUFFER_SIZE, 120)}
\* a received topic message: n parts, part 0 the topic, part 1 the payload
TopicFrames ==
    [n : {2}, topic : Topics, payload : TopicPayloads]
    \cup [n : {1}, topic : Topics, payload : {<<>>}]
LoopTopicFrames ==
    [n : {2},
     topic : {ZMQ_STATE_TOPIC, WaveformTopic(0), WaveformTopic(0) \o <<48>>,
              WaveformTopic(3) \o Fill(10, 57)},
     payload : {TEXT_WAVE}]
    \cup [n : {1}, topic : {ZMQ_TIMEDIV_TOPIC}, payload : {<<>>}]
\* the topic message of the runs of all the threads together
AllTopicFrames == [n : {2}, topic : {ZMQ_STATE_TOPIC}, payload : {TEXT_WAVE}]
NoTopicFrame == [n |-> 0, topic |-> <<>>, payload |-> <<>>]

\* the SUB socket hands over a message when its first part starts with a
\* subscribed topic
PassesFilter(subs, topic) == \E f \in subs : IsPrefix(f, topic)

(***************************************************************************)
(* The processes: the thread that owns the ZmqCommunicator (main), the two *)
(* loop threads and the DIM threads that run commandHandler.               *)
(***************************************************************************)
Threads == {"t1", "t2"}
Procs == {"main", "router", "sub"} \cup Threads
NoOwner == "none"

NoCall == [buf |-> "none", arg |-> <<>>, ret |-> "none"]

VARIABLES
    running,            \* std::atomic<bool> running
    started,            \* start() has returned
    subscriptions,      \* the SUB socket's subscriptions
    aborted,            \* std::terminate was called (uncaught exception, crash)
    client_id_mutex,    \* owner of client_id_mutex
    python_client_id,   \* zmq::message_t python_client_id
    mtx,                \* owner of each buffer's mtx
    buffer,             \* the bytes of each service buffer
    serviceUpdates,     \* updateService() calls made on each DIM service
    routerOut,          \* the parts sent on the ROUTER socket, in order
    command_counter,    \* command_counter of each registered command
    errLog,             \* the topics written to std::cerr
    pc,                 \* where each process is
    routerMsg,          \* router_loop's multipart_msg
    subMsg,             \* subscribe_loop's multipart_msg
    call,               \* the update call each process is in
    inv,                \* the locals of each commandHandler call
    nCmdIn, nTopicIn, nCalls, nUpdates,   \* how much input was consumed
    lastRecvId,         \* identity of the last frame recv returned
    lastCapturedId      \* identity of the last frame the loop captured

vars == <<running, started, subscriptions, aborted, client_id_mutex,
          python_client_id, mtx, buffer, serviceUpdates, routerOut,
          command_counter, errLog, pc, routerMsg, subMsg, call, inv,
          nCmdIn, nTopicIn, nCalls, nUpdates, lastRecvId, lastCapturedId>>

(***************************************************************************)
(* The command handlers (CommandHandlers.cpp, CommandRegistry.cpp).        *)
(***************************************************************************)
PY_SET_TRIG_LEVEL == "set_trigger_level"
PY_RAW_QUERY == "raw_query"
PY_RAW_WRITE == "raw_write"
RAW_CMD == "SCOPE/RAW"
TRIG_SET_LEVEL_CMD == "SCOPE/TRIGGER/SET_LEVEL"
\* the DimCommand objects register_all_commands creates (one of the
\* FlexibleJsonCommand ones, and the RawCommandService)
Commands == {TRIG_SET_LEVEL_CMD, RAW_CMD}

QUERY_MARK == 63  \* '?'
RAW_TEXT_QUERY == <<42, 73, 68, 78, 63>>  \* "*IDN?"
RAW_TEXT_WRITE == <<58, 82, 85, 78>>  \* ":RUN"
RAW_TEXT_MID == <<65, 63, 66>>  \* "A?B"
LEVEL_TEXT == <<49, 46, 53>>  \* the float 1.5 of a SET_LEVEL invocation
\* the data DIM can deliver with an invocation of each command
CommandData(c) ==
    IF c = RAW_CMD THEN {RAW_TEXT_QUERY, RAW_TEXT_WRITE, RAW_TEXT_MID} ELSE {LEVEL_TEXT}

\* the id string: prefix + "_" + std::to_string(counter)
MakeIdBare(prefix, counter) == [prefix |-> "", sep |-> "_", num |-> counter]
MakeId(prefix, counter) == [prefix |-> prefix, sep |-> "_", num |-> counter]

NoEnvelope ==
    [id |-> MakeId("", 0), type |-> "", command |-> "", key |-> "", val |-> <<>>]

\* FlexibleJsonCommand::commandHandler for SCOPE/TRIGGER/SET_LEVEL
FlexibleEnvelope(counter, data) ==
    [id |-> MakeId(PY_SET_TRIG_LEVEL, counter), type |-> "",
     command |-> PY_SET_TRIG_LEVEL, key |-> "level", val |-> data]

\* cmd_text.find('?') != std::string::npos
QueryMarkFirst(cmd_text) == Len(cmd_text) > 0 /\ cmd_text[1] = QUERY_MARK
HasQueryMark(cmd_text) == \E i \in 1..Len(cmd_text) : cmd_text[i] = QUERY_MARK

\* RawCommandService::commandHandler
RawEnvelope(counter, cmd_text) ==
    IF HasQueryMark(cmd_text)
    THEN [id |-> MakeId("raw_cmd", counter), type |-> "command",
          command |-> PY_RAW_QUERY, key |-> "query", val |-> cmd_text]
    ELSE [id |-> MakeId("raw_cmd", counter), type |-> "command",
          command |-> PY_RAW_WRITE, key |-> "command", val |-> cmd_text]

Envelope(c, counter, data) ==
    IF c = RAW_CMD THEN RawEnvelope(counter, data) ELSE FlexibleEnvelope(counter, data)

NoInv == [cmd |-> "", data |-> <<>>, counter |-> 0, json |-> NoEnvelope]

\* one part handed to router_socket.send
Part(t, kind, bytes, json, more) ==
    [by |-> t, kind |-> kind, bytes |-> bytes, json |-> json, more |-> more]

(***************************************************************************)
(* Construction: ReplyService(), ProtectedDimService(name, size),          *)
(* ZmqCommunicator(service).  The reply buffer is a plain char array of    *)
(* which the constructor sets byte 0 only: the others hold whatever the    *)
(* memory held.                                                            *)
(***************************************************************************)
\* sample values of a byte that was never written
UninitBytes == {NUL, 205}
Init ==
    /\ running = FALSE
    /\ started = FALSE
    /\ subscriptions = {}
    /\ aborted = FALSE
    /\ client_id_mutex = NoOwner
    /\ python_client_id = EmptyId
    /\ mtx = [b \in BufNames |-> NoOwner]
    /\ \E g \in UninitBytes :
         buffer = [b \in BufNames |->
                     IF b = "reply"
                     THEN [i \in 1..Capacity(b) |-> IF i = 1 THEN NUL ELSE g]
                     ELSE Fill(Capacity(b), NUL)]
    /\ serviceUpdates = [b \in BufNames |-> 0]
    /\ routerOut = <<>>
    /\ command_counter = [c \in Commands |-> 0]
    /\ errLog = <<>>
    /\ pc = [p \in Procs |->
               IF p \in Threads THEN "idle"
               ELSE IF p = "main" THEN "m_idle" ELSE "unstarted"]
    /\ routerMsg = NoCmdFrame
    /\ subMsg = NoTopicFrame
    /\ call = [p \in Procs |-> NoCall]
    /\ inv = [t \in Threads |-> NoInv]
    /\ nCmdIn = 0 /\ nTopicIn = 0 /\ nCalls = 0 /\ nUpdates = 0
    /\ lastRecvId = EmptyId
    /\ lastCapturedId = EmptyId

\* ZmqCommunicator::start
Start ==
    /\ ~started /\ ~aborted /\ pc["main"] = "m_idle"
    /\ subscriptions' = Subscriptions
    /\ running' = TRUE
    /\ started' = TRUE
    /\ pc' = [pc EXCEPT !["router"] = "r_top", !["sub"] = "s_top"]
    /\ UNCHANGED <<aborted, client_id_mutex, python_client_id, mtx, buffer,
                   serviceUpdates, routerOut, command_counter, errLog, routerMsg,
                   subMsg, call, inv, nCmdIn, nTopicIn, nCalls, nUpdates,
                   lastRecvId, lastCapturedId>>

(***************************************************************************)
(* ZmqCommunicator::stop, called by the owner directly (it returns to      *)
(* "m_idle") or from ~ZmqCommunicator (it returns to "m_destroyed").       *)
(***************************************************************************)
StopCall(ret) ==
    /\ ~aborted /\ pc["main"] = "m_idle"
    /\ call' = [call EXCEPT !["main"] = [buf |-> "none", arg |-> <<>>, ret |-> ret]]
    /\ pc' = [pc EXCEPT !["main"] = "m_stop_test"]
    /\ UNCHANGED <<running, started, subscriptions, aborted, client_id_mutex,
                   python_client_id, mtx, buffer, serviceUpdates, routerOut,
                   command_counter, errLog, routerMsg, subMsg, inv,
                   nCmdIn, nTopicIn, nCalls, nUpdates, lastRecvId, lastCapturedId>>

\* if (running) { running = false; ... }
StopTest ==
    /\ ~aborted /\ pc["main"] = "m_stop_test"
    /\ IF running
       THEN /\ running' = FALSE
            /\ pc' = [pc EXCEPT !["main"] = "m_join_router"]
            /\ call' = call
       ELSE /\ running' = running
            /\ pc' = [pc EXCEPT !["main"] = call["main"].ret]
            /\ call' = [call EXCEPT !["main"] = NoCall]
    /\ UNCHANGED <<started, subscriptions, aborted, client_id_mutex,
                   python_client_id, mtx, buffer, serviceUpdates, routerOut,
                   command_counter, errLog, routerMsg, subMsg, inv,
                   nCmdIn, nTopicIn, nCalls, nUpdates, lastRecvId, lastCapturedId>>

\* std::thread::joinable(): the thread was started and not joined yet
Joinable(loc) == loc \notin {"unstarted", "r_joined", "s_joined"}

\* std::thread::join() returns when the thread's function has returned
JoinReturnsAtOnce(loc) == TRUE
JoinReturns(loc) == loc \in {"r_exited", "s_exited"}

\* if (router_thread.joinable()) router_thread.join()
StopJoinRouter ==
    /\ ~aborted /\ pc["main"] = "m_join_router"
    /\ IF Joinable(pc["router"])
       THEN /\ JoinReturns(pc["router"])
            /\ pc' = [pc EXCEPT !["router"] = "r_joined", !["main"] = "m_join_sub"]
       ELSE pc' = [pc EXCEPT !["main"] = "m_join_sub"]
    /\ UNCHANGED <<running, started, subscriptions, aborted, client_id_mutex,
                   python_client_id, mtx, buffer, serviceUpdates, routerOut,
                   command_counter, errLog, routerMsg, subMsg, call, inv,
                   nCmdIn, nTopicIn, nCalls, nUpdates, lastRecvId, lastCapturedId>>

\* if (sub_thread.joinable()) sub_thread.join(), and the return of stop
StopJoinSub ==
    /\ ~aborted /\ pc["main"] = "m_join_sub"
    /\ IF Joinable(pc["sub"])
       THEN /\ JoinReturns(pc["sub"])
            /\ pc' = [pc EXCEPT !["sub"] = "s_joined", !["main"] = call["main"].ret]
       ELSE pc' = [pc EXCEPT !["main"] = call["main"].ret]
    /\ call' = [call EXCEPT !["main"] = NoCall]
    /\ UNCHANGED <<running, started, subscriptions, aborted, client_id_mutex,
                   python_client_id, mtx, buffer, serviceUpdates, routerOut,
                   command_counter, errLog, routerMsg, subMsg, inv,
                   nCmdIn, nTopicIn, nCalls, nUpdates, lastRecvId, lastCapturedId>>

StopSteps == StopTest \/ StopJoinRouter \/ StopJoinSub

(***************************************************************************)
(* ProtectedDimService::update and ReplyService::update, run by process p  *)
(* on buffer call[p].buf with the text call[p].arg.                        *)
(***************************************************************************)
\* std::mutex::lock() returns when no thread owns the mutex
UnlockedAlways(owner) == TRUE
Unlocked(owner) == owner = NoOwner

\* the owner of a mutex after its lock_guard was destroyed
LockGuardKeeps(owner) == owner
LockGuardReleases(owner) == NoOwner

\* std::lock_guard<std::mutex> lock(mtx)
UpdLock(p) ==
    /\ ~aborted /\ pc[p] = "upd_lock"
    /\ Unlocked(mtx[call[p].buf])
    /\ mtx' = [mtx EXCEPT ![call[p].buf] = p]
    /\ pc' = [pc EXCEPT ![p] = "upd_copy"]
    /\ UNCHANGED <<running, started, subscriptions, aborted, client_id_mutex,
                   python_client_id, buffer, serviceUpdates, routerOut,
                   command_counter, errLog, routerMsg, subMsg, call, inv,
                   nCmdIn, nTopicIn, nCalls, nUpdates, lastRecvId, lastCapturedId>>

\* strncpy(buffer, new_data.c_str(), count)
UpdStrncpy(p) ==
    /\ ~aborted /\ pc[p] = "upd_copy"
    /\ buffer' = [buffer EXCEPT ![call[p].buf] =
                     Strncpy(@, call[p].arg, CopyCount(call[p].buf))]
    /\ pc' = [pc EXCEPT ![p] = "upd_term"]
    /\ UNCHANGED <<running, started, subscriptions, aborted, client_id_mutex,
                   python_client_id, mtx, serviceUpdates, routerOut,
                   command_counter, errLog, routerMsg, subMsg, call, inv,
                   nCmdIn, nTopicIn, nCalls, nUpdates, lastRecvId, lastCapturedId>>

\* buffer.back() = '\0'
UpdTerminate(p) ==
    /\ ~aborted /\ pc[p] = "upd_term"
    /\ buffer' = [buffer EXCEPT ![call[p].buf] = Terminate(@)]
    /\ pc' = [pc EXCEPT ![p] = "upd_notify"]
    /\ UNCHANGED <<running, started, subscriptions, aborted, client_id_mutex,
                   python_client_id, mtx, serviceUpdates, routerOut,
                   command_counter, errLog, routerMsg, subMsg, call, inv,
                   nCmdIn, nTopicIn, nCalls, nUpdates, lastRecvId, lastCapturedId>>

\* the number of notifications a service has sent after one more call of
\* DimService::updateService()
updateServiceNoop(sent) == sent
updateService(sent) == sent + 1

\* service.updateService()
UpdNotify(p) ==
    /\ ~aborted /\ pc[p] = "upd_notify"
    /\ serviceUpdates' = [serviceUpdates EXCEPT ![call[p].buf] = updateService(@)]
    /\ pc' = [pc EXCEPT ![p] = "upd_unlock"]
    /\ UNCHANGED <<running, started, subscriptions, aborted, client_id_mutex,
                   python_client_id, mtx, buffer, routerOut,
                   command_counter, errLog, routerMsg, subMsg, call, inv,
                   nCmdIn, nTopicIn, nCalls, nUpdates, lastRecvId, lastCapturedId>>

\* the lock_guard's destructor, and the return to the caller
UpdUnlock(p) ==
    /\ ~aborted /\ pc[p] = "upd_unlock"
    /\ mtx' = [mtx EXCEPT ![call[p].buf] = LockGuardReleases(@)]
    /\ pc' = [pc EXCEPT ![p] = call[p].ret]
    /\ call' = [call EXCEPT ![p] = NoCall]
    /\ UNCHANGED <<running, started, subscriptions, aborted, client_id_mutex,
                   python_client_id, buffer, serviceUpdates, routerOut,
                   command_counter, errLog, routerMsg, subMsg, inv,
                   nCmdIn, nTopicIn, nCalls, nUpdates, lastRecvId, lastCapturedId>>

\* one buffer of each kind: the ReplyService, a ProtectedDimService of
\* STATE_BUFFER_SIZE and one of WAVEFORM_BUFFER_SIZE
BufferKinds == {"reply", "state", WaveformName(0)}

\* the texts update is called with: empty, short, with a null byte inside,
\* one byte less than the capacity, the capacity, and more
UpdateTexts(b) ==
    {<<>>, TEXT_PI, TEXT_NUL, Fill(Capacity(b) - 1, 121), Fill(Capacity(b), 120),
     Fill(Capacity(b) + 1, 122)}

\* update(new_data) is called on buffer b by thread p
UpdateCall(p, b, text) ==
    /\ ~aborted /\ pc[p] = "idle"
    /\ nUpdates < MaxUpdates
    /\ nUpdates' = nUpdates + 1
    /\ call' = [call EXCEPT ![p] = [buf |-> b, arg |-> text, ret |-> "idle"]]
    /\ pc' = [pc EXCEPT ![p] = "upd_lock"]
    /\ UNCHANGED <<running, started, subscriptions, aborted, client_id_mutex,
                   python_client_id, mtx, buffer, serviceUpdates, routerOut,
                   command_counter, errLog, routerMsg, subMsg, inv,
                   nCmdIn, nTopicIn, nCalls, lastRecvId, lastCapturedId>>

Update(p) ==
    UpdLock(p) \/ UpdStrncpy(p) \/ UpdTerminate(p) \/ UpdNotify(p) \/ UpdUnlock(p)

(***************************************************************************)
(* ZmqCommunicator::router_loop.                                           *)
(***************************************************************************)
\* while (running)
RouterTop ==
    /\ ~aborted /\ pc["router"] = "r_top"
    /\ pc' = [pc EXCEPT !["router"] = IF running THEN "r_recv" ELSE "r_exited"]
    /\ UNCHANGED <<running, started, subscriptions, aborted, client_id_mutex,
                   python_client_id, mtx, buffer, serviceUpdates, routerOut,
                   command_counter, errLog, routerMsg, subMsg, call, inv,
                   nCmdIn, nTopicIn, nCalls, nUpdates, lastRecvId, lastCapturedId>>

\* multipart_msg.recv(router_socket, ZMQ_DONTWAIT) finds no message: sleep
RouterRecvNone ==
    /\ ~aborted /\ pc["router"] = "r_recv"
    /\ pc' = [pc EXCEPT !["router"] = "r_top"]
    /\ UNCHANGED <<running, started, subscriptions, aborted, client_id_mutex,
                   python_client_id, mtx, buffer, serviceUpdates, routerOut,
                   command_counter, errLog, routerMsg, subMsg, call, inv,
                   nCmdIn, nTopicIn, nCalls, nUpdates, lastRecvId, lastCapturedId>>

\* multipart_msg.recv(router_socket, ZMQ_DONTWAIT) returns the message f
RouterRecv(f) ==
    /\ ~aborted /\ pc["router"] = "r_recv"
    /\ nCmdIn < MaxCmdFrames
    /\ routerMsg' = f
    /\ nCmdIn' = nCmdIn + 1
    /\ lastRecvId' = f.id
    /\ pc' = [pc EXCEPT !["router"] = "r_lock"]
    /\ UNCHANGED <<running, started, subscriptions, aborted, client_id_mutex,
                   python_client_id, mtx, buffer, serviceUpdates, routerOut,
                   command_counter, errLog, subMsg, call, inv,
                   nTopicIn, nCalls, nUpdates, lastCapturedId>>

\* std::lock_guard<std::mutex> lock(client_id_mutex)
RouterLock ==
    /\ ~aborted /\ pc["router"] = "r_lock"
    /\ Unlocked(client_id_mutex)
    /\ client_id_mutex' = "router"
    /\ pc' = [pc EXCEPT !["router"] = "r_capture"]
    /\ UNCHANGED <<running, started, subscriptions, aborted,
                   python_client_id, mtx, buffer, serviceUpdates, routerOut,
                   command_counter, errLog, routerMsg, subMsg, call, inv,
                   nCmdIn, nTopicIn, nCalls, nUpdates, lastRecvId, lastCapturedId>>

\* python_client_id = std::move(multipart_msg.at(0))
ObserveFirstOnly(held, identity) == IF held = EmptyId THEN identity ELSE held
Observe(held, identity) == identity

\* the assignment, and the end of the lock's scope
RouterCapture ==
    /\ ~aborted /\ pc["router"] = "r_capture"
    /\ python_client_id' = Observe(python_client_id, routerMsg.id)
    /\ lastCapturedId' = routerMsg.id
    /\ client_id_mutex' = NoOwner
    /\ pc' = [pc EXCEPT !["router"] = "r_dispatch"]
    /\ UNCHANGED <<running, started, subscriptions, aborted,
                   mtx, buffer, serviceUpdates, routerOut,
                   command_counter, errLog, routerMsg, subMsg, call, inv,
                   nCmdIn, nTopicIn, nCalls, nUpdates, lastRecvId>>

\* multipart_msg.at(2), json::parse and the dispatch on type and status
RouterDispatch ==
    /\ ~aborted /\ pc["router"] = "r_dispatch"
    /\ LET o == RouterOutcome(routerMsg) IN
         \/ /\ o.act = "throw"   \* an exception leaves the thread: std::terminate
            /\ aborted' = TRUE
            /\ pc' = [pc EXCEPT !["router"] = "r_terminated"]
            /\ call' = call
         \/ /\ o.act = "none"
            /\ pc' = [pc EXCEPT !["router"] = "r_end"]
            /\ UNCHANGED <<aborted, call>>
         \/ /\ o.act = "update"
            /\ call' = [call EXCEPT !["router"] =
                          [buf |-> "reply", arg |-> o.text, ret |-> "r_end"]]
            /\ pc' = [pc EXCEPT !["router"] = "upd_lock"]
            /\ aborted' = aborted
    /\ UNCHANGED <<running, started, subscriptions, client_id_mutex,
                   python_client_id, mtx, buffer, serviceUpdates, routerOut,
                   command_counter, errLog, routerMsg, subMsg, inv,
                   nCmdIn, nTopicIn, nCalls, nUpdates, lastRecvId, lastCapturedId>>

\* the end of the iteration: multipart_msg is destroyed, the thread sleeps
RouterEnd ==
    /\ ~aborted /\ pc["router"] = "r_end"
    /\ routerMsg' = NoCmdFrame
    /\ pc' = [pc EXCEPT !["router"] = "r_top"]
    /\ UNCHANGED <<running, started, subscriptions, aborted, client_id_mutex,
                   python_client_id, mtx, buffer, serviceUpdates, routerOut,
                   command_counter, errLog, subMsg, call, inv,
                   nCmdIn, nTopicIn, nCalls, nUpdates, lastRecvId, lastCapturedId>>

RouterSteps ==
    \/ RouterTop \/ RouterRecvNone
    \/ RouterLock \/ RouterCapture \/ RouterDispatch \/ RouterEnd
    \/ Update("router")

(***************************************************************************)
(* ZmqCommunicator::subscribe_loop.                                        *)
(***************************************************************************)
SubTop ==
    /\ ~aborted /\ pc["sub"] = "s_top"
    /\ pc' = [pc EXCEPT !["sub"] = IF running THEN "s_recv" ELSE "s_exited"]
    /\ UNCHANGED <<running, started, subscriptions, aborted, client_id_mutex,
                   python_client_id, mtx, buffer, serviceUpdates, routerOut,
                   command_counter, errLog, routerMsg, subMsg, call, inv,
                   nCmdIn, nTopicIn, nCalls, nUpdates, lastRecvId, lastCapturedId>>

SubRecvNone ==
    /\ ~aborted /\ pc["sub"] = "s_recv"
    /\ pc' = [pc EXCEPT !["sub"] = "s_top"]
    /\ UNCHANGED <<running, started, subscriptions, aborted, client_id_mutex,
                   python_client_id, mtx, buffer, serviceUpdates, routerOut,
                   command_counter, errLog, routerMsg, subMsg, call, inv,
                   nCmdIn, nTopicIn, nCalls, nUpdates, lastRecvId, lastCapturedId>>

\* multipart_msg.recv(sub_socket, ZMQ_DONTWAIT) returns the message f
SubRecv(f) ==
    /\ ~aborted /\ pc["sub"] = "s_recv"
    /\ nTopicIn < MaxTopicFrames
    /\ PassesFilter(subscriptions, f.topic)
    /\ subMsg' = f
    /\ nTopicIn' = nTopicIn + 1
    /\ pc' = [pc EXCEPT !["sub"] = "s_route"]
    /\ UNCHANGED <<running, started, subscriptions, aborted, client_id_mutex,
                   python_client_id, mtx, buffer, serviceUpdates, routerOut,
                   command_counter, errLog, routerMsg, call, inv,
                   nCmdIn, nCalls, nUpdates, lastRecvId, lastCapturedId>>

\* the two popstr() calls and the routing of the topic.  With a one-part
\* message the second popstr() reads the front of an empty deque: the thread
\* crashes, or goes on with whatever bytes it read.
SubRoute ==
    /\ ~aborted /\ pc["sub"] = "s_route"
    /\ \/ /\ subMsg.n < 2
          /\ aborted' = TRUE
          /\ pc' = [pc EXCEPT !["sub"] = "s_terminated"]
          /\ UNCHANGED <<call, errLog>>
       \/ \E payload \in (IF subMsg.n < 2 THEN TopicPayloads ELSE {subMsg.payload}) :
            LET r == RouteTopic(subMsg.topic) IN
              /\ aborted' = aborted
              /\ \/ /\ r.act = "update"
                    /\ call' = [call EXCEPT !["sub"] =
                                  [buf |-> r.buf, arg |-> payload, ret |-> "s_end"]]
                    /\ pc' = [pc EXCEPT !["sub"] = "upd_lock"]
                    /\ errLog' = errLog
                 \/ /\ r.act = "log"
                    /\ errLog' = Append(errLog, subMsg.topic)
                    /\ pc' = [pc EXCEPT !["sub"] = "s_end"]
                    /\ call' = call
                 \/ /\ r.act = "drop"
                    /\ pc' = [pc EXCEPT !["sub"] = "s_end"]
                    /\ UNCHANGED <<call, errLog>>
    /\ UNCHANGED <<running, started, subscriptions, client_id_mutex,
                   python_client_id, mtx, buffer, serviceUpdates, routerOut,
                   command_counter, routerMsg, subMsg, inv,
                   nCmdIn, nTopicIn, nCalls, nUpdates, lastRecvId, lastCapturedId>>

SubEnd ==
    /\ ~aborted /\ pc["sub"] = "s_end"
    /\ subMsg' = NoTopicFrame
    /\ pc' = [pc EXCEPT !["sub"] = "s_top"]
    /\ UNCHANGED <<running, started, subscriptions, aborted, client_id_mutex,
                   python_client_id, mtx, buffer, serviceUpdates, routerOut,
                   command_counter, errLog, routerMsg, call, inv,
                   nCmdIn, nTopicIn, nCalls, nUpdates, lastRecvId, lastCapturedId>>

SubSteps ==
    \/ SubTop \/ SubRecvNone
    \/ SubRoute \/ SubEnd
    \/ Update("sub")

(***************************************************************************)
(* A DIM thread t runs a command's commandHandler, which ends in           *)
(* ZmqCommunicator::send_command.                                          *)
(***************************************************************************)
\* DIM calls commandHandler of command c with data d; the handler loads
\* command_counter
HandlerBegin(t, c, d) ==
    /\ ~aborted /\ started /\ pc[t] = "idle"
    /\ nCalls < MaxCalls
    /\ nCalls' = nCalls + 1
    /\ inv' = [inv EXCEPT ![t] =
                 [cmd |-> c, data |-> d, counter |-> command_counter[c],
                  json |-> NoEnvelope]]
    /\ pc' = [pc EXCEPT ![t] = "h_build"]
    /\ UNCHANGED <<running, started, subscriptions, aborted, client_id_mutex,
                   python_client_id, mtx, buffer, serviceUpdates, routerOut,
                   command_counter, errLog, routerMsg, subMsg, call,
                   nCmdIn, nTopicIn, nUpdates, lastRecvId, lastCapturedId>>

\* the value command_counter++ stores
NoIncrement(counter) == counter
Increment(counter) == counter + 1

\* command_counter++ stores the incremented value; the envelope is built with
\* the value loaded, and send_command(j.dump()) is called
HandlerBuild(t) ==
    /\ ~aborted /\ pc[t] = "h_build"
    /\ command_counter' = [command_counter EXCEPT ![inv[t].cmd] = Increment(inv[t].counter)]
    /\ inv' = [inv EXCEPT ![t].json = Envelope(inv[t].cmd, inv[t].counter, inv[t].data)]
    /\ pc' = [pc EXCEPT ![t] = "sc_lock"]
    /\ UNCHANGED <<running, started, subscriptions, aborted, client_id_mutex,
                   python_client_id, mtx, buffer, serviceUpdates, routerOut,
                   errLog, routerMsg, subMsg, call,
                   nCmdIn, nTopicIn, nCalls, nUpdates, lastRecvId, lastCapturedId>>

\* std::lock_guard<std::mutex> lock(client_id_mutex)
SendLock(t) ==
    /\ ~aborted /\ pc[t] = "sc_lock"
    /\ Unlocked(client_id_mutex)
    /\ client_id_mutex' = t
    /\ pc' = [pc EXCEPT ![t] = "sc_check"]
    /\ UNCHANGED <<running, started, subscriptions, aborted,
                   python_client_id, mtx, buffer, serviceUpdates, routerOut,
                   command_counter, errLog, routerMsg, subMsg, call, inv,
                   nCmdIn, nTopicIn, nCalls, nUpdates, lastRecvId, lastCapturedId>>

\* python_client_id.size() == 0
NeverNotConnected(id) == FALSE
NotConnected(id) == Len(id) = 0

\* the test, and on the not-connected branch the call of reply_svc.update
SendCheck(t) ==
    /\ ~aborted /\ pc[t] = "sc_check"
    /\ IF NotConnected(python_client_id)
       THEN /\ call' = [call EXCEPT ![t] =
                          [buf |-> "reply", arg |-> NOT_CONNECTED_TEXT,
                           ret |-> "sc_return"]]
            /\ pc' = [pc EXCEPT ![t] = "upd_lock"]
       ELSE /\ pc' = [pc EXCEPT ![t] = "sc_send_id"]
            /\ call' = call
    /\ UNCHANGED <<running, started, subscriptions, aborted, client_id_mutex,
                   python_client_id, mtx, buffer, serviceUpdates, routerOut,
                   command_counter, errLog, routerMsg, subMsg, inv,
                   nCmdIn, nTopicIn, nCalls, nUpdates, lastRecvId, lastCapturedId>>

\* zmq_msg_send hands the message's content to the socket and leaves the
\* zmq::message_t it was given empty
MessageAfterSend(msg) == EmptyId

\* router_socket.send(python_client_id, zmq::send_flags::sndmore)
SendIdentity(t) ==
    /\ ~aborted /\ pc[t] = "sc_send_id"
    /\ routerOut' = Append(routerOut,
                           Part(t, "identity", python_client_id, NoEnvelope, TRUE))
    /\ python_client_id' = MessageAfterSend(python_client_id)
    /\ pc' = [pc EXCEPT ![t] = "sc_send_delim"]
    /\ UNCHANGED <<running, started, subscriptions, aborted, client_id_mutex,
                   mtx, buffer, serviceUpdates,
                   command_counter, errLog, routerMsg, subMsg, call, inv,
                   nCmdIn, nTopicIn, nCalls, nUpdates, lastRecvId, lastCapturedId>>

\* router_socket.send(zmq::buffer(""), zmq::send_flags::sndmore)
SendDelimiter(t) ==
    /\ ~aborted /\ pc[t] = "sc_send_delim"
    /\ routerOut' = Append(routerOut, Part(t, "delimiter", <<>>, NoEnvelope, TRUE))
    /\ pc' = [pc EXCEPT ![t] = "sc_send_json"]
    /\ UNCHANGED <<running, started, subscriptions, aborted, client_id_mutex,
                   python_client_id, mtx, buffer, serviceUpdates,
                   command_counter, errLog, routerMsg, subMsg, call, inv,
                   nCmdIn, nTopicIn, nCalls, nUpdates, lastRecvId, lastCapturedId>>

\* router_socket.send(zmq::buffer(json_str), zmq::send_flags::none)
SendJson(t) ==
    /\ ~aborted /\ pc[t] = "sc_send_json"
    /\ routerOut' = Append(routerOut, Part(t, "json", <<>>, inv[t].json, FALSE))
    /\ pc' = [pc EXCEPT ![t] = "sc_return"]
    /\ UNCHANGED <<running, started, subscriptions, aborted, client_id_mutex,
                   python_client_id, mtx, buffer, serviceUpdates,
                   command_counter, errLog, routerMsg, subMsg, call, inv,
                   nCmdIn, nTopicIn, nCalls, nUpdates, lastRecvId, lastCapturedId>>

\* send_command returns (the lock_guard releases client_id_mutex), and so does
\* commandHandler
SendReturn(t) ==
    /\ ~aborted /\ pc[t] = "sc_return"
    /\ client_id_mutex' = NoOwner
    /\ inv' = [inv EXCEPT ![t] = NoInv]
    /\ pc' = [pc EXCEPT ![t] = "idle"]
    /\ UNCHANGED <<running, started, subscriptions, aborted,
                   python_client_id, mtx, buffer, serviceUpdates, routerOut,
                   command_counter, errLog, routerMsg, subMsg, call,
                   nCmdIn, nTopicIn, nCalls, nUpdates, lastRecvId, lastCapturedId>>

HandlerSteps(t) ==
    \/ HandlerBuild(t)
    \/ SendLock(t) \/ SendCheck(t)
    \/ SendIdentity(t) \/ SendDelimiter(t) \/ SendJson(t) \/ SendReturn(t)
    \/ Update(t)

(***************************************************************************)
(* Specifications.                                                         *)
(***************************************************************************)
\* the command channel: the router loop, and DIM threads that invoke
\* SCOPE/TRIGGER/SET_LEVEL
NextCmd ==
    \/ Start
    \/ RouterSteps \/ (\E f \in CoreFrames : RouterRecv(f))
    \/ (\E t \in Threads : \E d \in CommandData(TRIG_SET_LEVEL_CMD) :
            HandlerBegin(t, TRIG_SET_LEVEL_CMD, d))
    \/ (\E t \in Threads : HandlerSteps(t))
SpecCmd == Init /\ [][NextCmd]_vars

\* one DIM thread that invokes the registered commands one after the other,
\* and the router loop with frames of one worker
NextSeq ==
    \/ Start
    \/ RouterSteps \/ (\E f \in LoopCmdFrames : RouterRecv(f))
    \/ (\E c \in Commands : \E d \in CommandData(c) : HandlerBegin("t1", c, d))
    \/ HandlerSteps("t1")
SpecSeq == Init /\ [][NextSeq]_vars

\* the router loop alone, with every kind of frame
NextReply == Start \/ RouterSteps \/ (\E f \in CmdFrames : RouterRecv(f))
SpecReply == Init /\ [][NextReply]_vars

\* the topic channel: the subscribe loop
NextTopic == Start \/ SubSteps \/ (\E f \in TopicFrames : SubRecv(f))
SpecTopic == Init /\ [][NextTopic]_vars

\* both loops, each with one frame of every kind
NextLoops ==
    \/ Start
    \/ RouterSteps \/ (\E f \in LoopCmdFrames : RouterRecv(f))
    \/ SubSteps \/ (\E f \in LoopTopicFrames : SubRecv(f))
SpecLoops == Init /\ [][NextLoops]_vars

\* both loops and their owner, which calls start, stop and the destructor
NextLife ==
    \/ Start
    \/ StopCall("m_idle") \/ StopCall("m_destroyed") \/ StopSteps
    \/ RouterSteps \/ (\E f \in LoopCmdFrames : RouterRecv(f))
    \/ SubSteps \/ (\E f \in LoopTopicFrames : SubRecv(f))
SpecLife == Init /\ [][NextLife]_vars

\* the same under fair scheduling: a thread that can take a step is not
\* left waiting for ever
FairLife == WF_vars(StopSteps) /\ WF_vars(RouterSteps) /\ WF_vars(SubSteps)
SpecLifeFair == SpecLife /\ FairLife

\* all the threads together: both loops, each with frames it processes to
\* the end, and DIM threads that invoke SCOPE/TRIGGER/SET_LEVEL
NextAll ==
    \/ Start
    \/ RouterSteps
    \/ (nCmdIn < MaxAllFrames /\ \E f \in AllCmdFrames : RouterRecv(f))
    \/ SubSteps
    \/ (nTopicIn < MaxAllFrames /\ \E f \in AllTopicFrames : SubRecv(f))
    \/ (\E t \in Threads : \E d \in CommandData(TRIG_SET_LEVEL_CMD) :
            HandlerBegin(t, TRIG_SET_LEVEL_CMD, d))
    \/ (\E t \in Threads : HandlerSteps(t))
SpecAll == Init /\ [][NextAll]_vars

\* the buffers alone: threads that call update
NextBuf ==
    \/ (\E p \in Threads : \E b \in BufferKinds : \E text \in UpdateTexts(b) :
            UpdateCall(p, b, text))
    \/ (\E p \in Threads : Update(p))
SpecBuf == Init /\ [][NextBuf]_vars

(***************************************************************************)
(* Properties.                                                             *)
(***************************************************************************)
Min(a, b) == IF a < b THEN a ELSE b

\* the locations of an update call after the terminator was written, where
\* the caller still holds the buffer's lock
UpdDone == {"upd_notify", "upd_unlock"}

\* a buffer of capacity cap that holds text as a C string: the bytes of text
\* up to its first null byte, at most cap - 1 of them, then null bytes
StoredForm(text, cap) ==
    LET m == Min(CLen(text), cap - 1)
    IN  SubSeq(text, 1, m) \o Fill(cap - m, NUL)

\* thread t is in the update call of send_command's not-connected branch
OnNotConnectedPath(t) ==
    call[t].buf = "reply" /\ call[t].arg = NOT_CONNECTED_TEXT

\* C1: once an inbound command-channel frame has been observed, a later
\* sendCommand never reports "not connected": a thread reports it only when
\* the router loop has not captured the identity of any frame yet.
C1_NotConnectedOnlyBeforeFirstFrame ==
    \A t \in Threads : OnNotConnectedPath(t) => lastCapturedId = EmptyId

\* C2: sendCommand that finds no worker identity held transmits nothing on
\* the command channel (nothing is sent from its test to its return), sets
\* ReplySink to "Error: Python client not connected." and returns to the
\* command callback, which returns to DIM.
C2_NotConnectedIsLocal ==
    [][\A t \in Threads :
          /\ (pc[t] = "sc_check" /\ python_client_id = EmptyId /\ pc'[t] # pc[t])
                => /\ pc'[t] = "upd_lock"
                   /\ call'[t] = [buf |-> "reply", arg |-> NOT_CONNECTED_TEXT,
                                  ret |-> "sc_return"]
          /\ ((pc[t] = "sc_check" /\ python_client_id = EmptyId) \/ OnNotConnectedPath(t))
                => routerOut' = routerOut
          /\ (OnNotConnectedPath(t) /\ pc[t] \in UpdDone)
                => CStr(buffer["reply"]) = NOT_CONNECTED_TEXT
          /\ (OnNotConnectedPath(t) /\ pc[t] = "upd_unlock" /\ pc'[t] # pc[t])
                => (pc'[t] = "sc_return" /\ ~aborted')
          /\ (pc[t] = "sc_return" /\ pc'[t] # pc[t])
                => (pc'[t] = "idle" /\ ~aborted')
      ]_vars

\* C2 happens: no identity was ever observed, a sendCommand has run to its
\* return, nothing was transmitted and ReplySink holds the error text.
C2_Witness ==
    \E t \in Threads :
        /\ pc[t] = "sc_return"
        /\ lastCapturedId = EmptyId
        /\ routerOut = <<>>
        /\ serviceUpdates["reply"] >= 1
        /\ CStr(buffer["reply"]) = NOT_CONNECTED_TEXT

\* C3 as stated: the identity part of every transmitted command frame is the
\* identity of the frame recv returned last, at the moment it is sent.
C3_AddressedToLastReceived ==
    [][\A t \in Threads :
          (pc[t] = "sc_send_id" /\ pc'[t] = "sc_send_delim")
             => routerOut'[Len(routerOut')].bytes = lastRecvId
      ]_vars

\* C3: the identity part of every transmitted command frame is the identity
\* of the inbound frame the router loop stored last (under the identity
\* lock) at the moment it is sent, whatever that frame's payload was; it is
\* never empty.
C3_AddressedToLastObserved ==
    [][\A t \in Threads :
          (pc[t] = "sc_send_id" /\ pc'[t] = "sc_send_delim")
             => /\ Len(routerOut') = Len(routerOut) + 1
                /\ routerOut'[Len(routerOut')].kind = "identity"
                /\ routerOut'[Len(routerOut')].bytes = lastCapturedId
                /\ routerOut'[Len(routerOut')].bytes # EmptyId
      ]_vars

\* C3 happens: a command was addressed to worker A, and a later one, after a
\* frame of worker B, to worker B.
C3_Witness ==
    /\ lastCapturedId = ID_B
    /\ \E i, k \in DOMAIN routerOut :
          /\ i < k
          /\ routerOut[i].kind = "identity" /\ routerOut[i].bytes = ID_A
          /\ routerOut[k].kind = "identity" /\ routerOut[k].bytes = ID_B

\* C4: no inbound message terminates a receive loop: neither loop is ever
\* left by an exception or a crash.
C4_NoInboundStopsALoop ==
    /\ pc["router"] # "r_terminated"
    /\ pc["sub"] # "s_terminated"
    /\ ~aborted

\* a frame with a payload part that is an object of type "reply" whose status
\* and whose payload (status "ok") or message (any other status) is a string
\* or absent
IsReplyEnvelope(f) ==
    /\ f.n >= 3
    /\ f.body.kind = "object"
    /\ f.body.type = Str(T_REPLY)
    /\ f.body.status.has # "other"
    /\ IF f.body.status = Str(S_OK)
       THEN f.body.payload.has # "other"
       ELSE f.body.message.has # "other"

\* the text C5 says ReplySink becomes
ExpectedReply(j) ==
    IF j.status = Str(S_OK)
    THEN IF j.payload.has = "absent" THEN DEFAULT_PAYLOAD ELSE j.payload.s
    ELSE ERROR_PREFIX \o (IF j.message.has = "absent" THEN DEFAULT_MESSAGE
                          ELSE j.message.s)

\* C5: for an inbound envelope of type "reply" the command loop updates
\* ReplySink with the payload field ("[empty]" when absent) if status is
\* "ok", and with "Error: " followed by the message field ("[no msg]" when
\* absent) for any other or absent status; ReplySink then holds that text,
\* as its buffer stores it.
C5_ReplyReachesReplySink ==
    [][IsReplyEnvelope(routerMsg) =>
          /\ (pc["router"] = "r_dispatch" /\ pc'["router"] # "r_dispatch")
                => /\ pc'["router"] = "upd_lock"
                   /\ call'["router"] =
                         [buf |-> "reply", arg |-> ExpectedReply(routerMsg.body),
                          ret |-> "r_end"]
          /\ pc["router"] \in UpdDone
                => buffer["reply"] =
                      StoredForm(ExpectedReply(routerMsg.body), REPLY_BUFFER_SIZE)
      ]_vars

\* C5 happens: a reply with status "error" and message "bad range" was
\* processed and ReplySink holds "Error: bad range".
C5_Witness ==
    /\ pc["router"] = "upd_unlock"
    /\ routerMsg.n = 3
    /\ routerMsg.body = Obj(Str(T_REPLY), Str(S_ERROR), Str(TEXT_PI), Str(TEXT_RANGE))
    /\ CStr(buffer["reply"]) = ERROR_PREFIX \o TEXT_RANGE

\* C6: a command-channel payload that is not JSON makes the command loop set
\* ReplySink to "Error: Malformed JSON from Python." and go on to its next
\* iteration; the topic loop never updates ReplySink.
C6_MalformedSurfacesAndLoopGoesOn ==
    [][/\ (routerMsg.n >= 3 /\ routerMsg.body.kind = "malformed") =>
             /\ (pc["router"] = "r_dispatch" /\ pc'["router"] # "r_dispatch")
                   => /\ pc'["router"] = "upd_lock"
                      /\ call'["router"] =
                            [buf |-> "reply", arg |-> MALFORMED_TEXT, ret |-> "r_end"]
                      /\ ~aborted'
             /\ pc["router"] \in UpdDone
                   => CStr(buffer["reply"]) = MALFORMED_TEXT
             /\ (pc["router"] = "upd_unlock" /\ pc'["router"] # "upd_unlock")
                   => pc'["router"] = "r_end"
             /\ (pc["router"] = "r_end" /\ pc'["router"] # "r_end")
                   => (pc'["router"] = "r_top" /\ running' /\ ~aborted')
       /\ call["sub"].buf # "reply"
       /\ pc'["sub"] # pc["sub"] => buffer'["reply"] = buffer["reply"]
      ]_vars

\* C6 happens: a malformed payload was processed, ReplySink holds the parse
\* error text, and the command loop is receiving again; the topic loop has
\* processed a frame too.
C6_Witness ==
    /\ pc["router"] = "r_recv"
    /\ nCmdIn >= 1
    /\ nTopicIn >= 1
    /\ ~aborted
    /\ CStr(buffer["reply"]) = MALFORMED_TEXT

\* the topics C7 names, and the buffer it gives each
MappedTopics ==
    {ZMQ_STATE_TOPIC, ZMQ_TIMEDIV_TOPIC}
    \cup {ZMQ_WAVEFORM_TOPIC_BASE \o to_string(k) : k \in 1..OSC_NUM_CHANNELS}
ClaimedBuffer(topic) ==
    IF topic = ZMQ_STATE_TOPIC THEN "state"
    ELSE IF topic = ZMQ_TIMEDIV_TOPIC THEN "timediv"
    ELSE WaveformName((CHOOSE k \in 1..OSC_NUM_CHANNELS :
                          topic = ZMQ_WAVEFORM_TOPIC_BASE \o to_string(k)) - 1)

\* C7: a two-part topic frame with the state topic, the time-division topic
\* or the channel prefix followed by k in 1..N makes the topic loop update
\* the state buffer, the time-division buffer or channel buffer k-1 with the
\* frame's payload; while the frame is processed no other buffer, and not
\* ReplySink, changes.
C7_TopicUpdatesItsBufferOnly ==
    [][(subMsg.n = 2 /\ subMsg.topic \in MappedTopics) =>
          LET b == ClaimedBuffer(subMsg.topic) IN
            /\ (pc["sub"] = "s_route" /\ pc'["sub"] # "s_route")
                  => /\ pc'["sub"] = "upd_lock"
                     /\ call'["sub"] =
                           [buf |-> b, arg |-> subMsg.payload, ret |-> "s_end"]
            /\ pc["sub"] \in UpdDone
                  => buffer[b] = StoredForm(subMsg.payload, Capacity(b))
            /\ \A o \in BufNames \ {b} : buffer'[o] = buffer[o]
      ]_vars

\* C7 happens: a frame of channel 4 was processed and channel buffer 3 holds
\* its payload.
C7_Witness ==
    /\ pc["sub"] = "upd_unlock"
    /\ subMsg.n = 2
    /\ subMsg.topic = WaveformTopic(3)
    /\ subMsg.payload = TEXT_WAVE
    /\ buffer[WaveformName(3)] = StoredForm(TEXT_WAVE, WAVEFORM_BUFFER_SIZE)
    /\ serviceUpdates[WaveformName(3)] >= 1

\* C8: a topic frame whose topic is none of the two fixed topics and not the
\* channel prefix followed by an integer k in 1..N changes no buffer.
C8_OtherTopicsMutateNothing ==
    [][(subMsg.n >= 1 /\ subMsg.topic \notin MappedTopics) => buffer' = buffer]_vars

\* C9 as stated: after update(P) on a buffer of capacity C the stored text is
\* the first min(len(P), C-1) bytes of P, followed by a null byte, and no
\* byte beyond the capacity was written.
C9_StoredTextIsPrefixByLength ==
    \A p \in Threads :
        pc[p] \in UpdDone =>
            LET b == call[p].buf
                m == Min(Len(call[p].arg), Capacity(b) - 1)
            IN  /\ CStr(buffer[b]) = SubSeq(call[p].arg, 1, m)
                /\ buffer[b][m + 1] = NUL
                /\ Len(buffer[b]) = Capacity(b)

\* C9: after update(P) on a buffer of capacity C (reply or protected) the
\* buffer holds the first min(strlen(P), C-1) bytes of P, strlen(P) being the
\* length of P up to its first null byte, and null bytes in all the rest of
\* its capacity, whatever it held before; no byte beyond the capacity is
\* ever written.
C9_StoredTextIsCStringPrefix ==
    /\ \A b \in BufNames : Len(buffer[b]) = Capacity(b)
    /\ \A p \in Threads :
          pc[p] \in UpdDone =>
              buffer[call[p].buf] = StoredForm(call[p].arg, Capacity(call[p].buf))

\* C9 happens: a second update of ReplySink, with a text shorter than the
\* capacity, has written its terminator.
C9_Witness ==
    \E p \in Threads :
        /\ pc[p] = "upd_unlock"
        /\ call[p].buf = "reply"
        /\ call[p].arg = TEXT_PI
        /\ serviceUpdates["reply"] = 2
        /\ buffer["reply"] = StoredForm(TEXT_PI, REPLY_BUFFER_SIZE)

\* C10: in every state, those inside an update included, every buffer holds
\* a null byte within its capacity.
C10_AlwaysTerminated ==
    \A b \in BufNames : \E i \in 1..Capacity(b) : buffer[b][i] = NUL

\* the envelopes transmitted so far: the positions of the json parts
JsonParts == {i \in DOMAIN routerOut : routerOut[i].kind = "json"}

\* the command spec an id belongs to, as far as the id shows it
SpecOfId(id) == IF id.prefix = "raw_cmd" THEN RAW_CMD ELSE TRIG_SET_LEVEL_CMD

\* C11: with the invocations of a command spec made one after the other,
\* each envelope gets the spec's counter value as its id suffix and the
\* counter is advanced by one, it changes in no other step and only for
\* that spec; so the transmitted envelopes of one spec carry strictly
\* increasing, pairwise distinct suffixes in the order of invocation, all
\* below the spec's counter.
C11_IdSuffixesIncrease ==
    [][/\ (pc["t1"] = "h_build" /\ pc'["t1"] # "h_build")
             => /\ inv'["t1"].json.id.num = command_counter[inv["t1"].cmd]
                /\ command_counter'[inv["t1"].cmd] = command_counter[inv["t1"].cmd] + 1
                /\ \A c \in Commands \ {inv["t1"].cmd} :
                      command_counter'[c] = command_counter[c]
       /\ pc["t1"] # "h_build" => command_counter' = command_counter
       /\ \A i \in JsonParts :
             routerOut[i].json.id.num < command_counter[SpecOfId(routerOut[i].json.id)]
       /\ \A i, k \in JsonParts :
             (i < k /\ routerOut[i].json.id.prefix = routerOut[k].json.id.prefix)
                => routerOut[i].json.id.num < routerOut[k].json.id.num
      ]_vars

\* C11 happens: two envelopes of the raw command were transmitted one after
\* the other, with the suffixes 0 and 1.
C11_Witness ==
    \E i, k \in JsonParts :
        /\ i < k
        /\ routerOut[i].json.id = MakeId("raw_cmd", 0)
        /\ routerOut[k].json.id = MakeId("raw_cmd", 1)

\* C12 as stated: the id of every envelope is its own command field, "_" and
\* the counter value.
C12_IdIsCommandAndCounter ==
    \A t \in Threads :
        inv[t].json # NoEnvelope =>
            inv[t].json.id =
               [prefix |-> inv[t].json.command, sep |-> "_", num |-> inv[t].counter]

\* C12: the id of an envelope of a FlexibleJsonCommand is its command field,
\* "_" and the counter value; the id of an envelope of the raw passthrough is
\* "raw_cmd", "_" and the counter value, whatever its command field
\* (raw_query or raw_write) is.
C12_IdIsPrefixAndCounter ==
    \A t \in Threads :
        inv[t].json # NoEnvelope =>
            IF inv[t].cmd = RAW_CMD
            THEN /\ inv[t].json.id =
                       [prefix |-> "raw_cmd", sep |-> "_", num |-> inv[t].counter]
                 /\ inv[t].json.command \in {PY_RAW_QUERY, PY_RAW_WRITE}
            ELSE /\ inv[t].json.id =
                       [prefix |-> inv[t].json.command, sep |-> "_",
                        num |-> inv[t].counter]
                 /\ inv[t].json.command = PY_SET_TRIG_LEVEL

\* C12 happens: the second invocation of the raw command has built a query
\* envelope with the id raw_cmd_1.
C12_Witness ==
    /\ inv["t1"].cmd = RAW_CMD
    /\ inv["t1"].json.command = PY_RAW_QUERY
    /\ inv["t1"].json.id = [prefix |-> "raw_cmd", sep |-> "_", num |-> 1]

\* C13: the envelope of the raw passthrough carries type "command"; with a
\* '?' anywhere in the text it has command raw_query and the one parameter
\* query, without one command raw_write and the one parameter command, the
\* parameter being the original text; and it is transmitted as built.
C13_RawClassifiedByQueryMark ==
    [][\A t \in Threads :
          /\ (inv[t].cmd = RAW_CMD /\ inv[t].json # NoEnvelope) =>
                /\ inv[t].json.type = "command"
                /\ inv[t].json.val = inv[t].data
                /\ IF \E i \in 1..Len(inv[t].data) : inv[t].data[i] = 63
                   THEN /\ inv[t].json.command = PY_RAW_QUERY
                        /\ inv[t].json.key = "query"
                   ELSE /\ inv[t].json.command = PY_RAW_WRITE
                        /\ inv[t].json.key = "command"
          /\ (pc[t] = "sc_send_json" /\ pc'[t] # "sc_send_json") =>
                /\ Len(routerOut') = Len(routerOut) + 1
                /\ routerOut'[Len(routerOut')].kind = "json"
                /\ routerOut'[Len(routerOut')].json = inv[t].json
      ]_vars

\* C13 happens: "A?B" was transmitted as a query envelope.
C13_Witness ==
    \E i \in JsonParts :
        /\ routerOut[i].json.command = PY_RAW_QUERY
        /\ routerOut[i].json.key = "query"
        /\ routerOut[i].json.val = RAW_TEXT_MID
        /\ routerOut[i].json.type = "command"

\* the owner is in no call of stop
OwnerAtRest == pc["main"] \in {"m_idle", "m_destroyed"}

\* C14: a stop() that finds running false (before any start, or after a
\* completed stop, the destructor's included) changes nothing and joins
\* nothing; a thread is joined only by the stop that cleared running, and
\* only once it has exited; whenever a stop() made after start() has
\* returned, both loop threads have exited and were joined, and from then on
\* no loop receives, captures an identity or updates a buffer.
C14_StopIsIdempotent ==
    [][/\ (pc["main"] = "m_stop_test" /\ ~running /\ pc'["main"] # "m_stop_test")
             => /\ pc'["main"] = call["main"].ret
                /\ pc'["router"] = pc["router"] /\ pc'["sub"] = pc["sub"]
                /\ <<running, started, python_client_id, buffer, serviceUpdates,
                     routerMsg, subMsg, nCmdIn, nTopicIn>>' =
                   <<running, started, python_client_id, buffer, serviceUpdates,
                     routerMsg, subMsg, nCmdIn, nTopicIn>>
       /\ (pc["router"] # "r_joined" /\ pc'["router"] = "r_joined")
             => (pc["router"] = "r_exited" /\ pc["main"] = "m_join_router")
       /\ (pc["sub"] # "s_joined" /\ pc'["sub"] = "s_joined")
             => (pc["sub"] = "s_exited" /\ pc["main"] = "m_join_sub")
       /\ (started /\ ~running /\ OwnerAtRest)
             => /\ pc["router"] = "r_joined" /\ pc["sub"] = "s_joined"
                /\ pc'["router"] = "r_joined" /\ pc'["sub"] = "s_joined"
                /\ <<python_client_id, buffer, serviceUpdates, routerMsg, subMsg,
                     nCmdIn, nTopicIn, lastCapturedId>>' =
                   <<python_client_id, buffer, serviceUpdates, routerMsg, subMsg,
                     nCmdIn, nTopicIn, lastCapturedId>>
      ]_vars

\* C14 happens: the loops have worked, stop() has returned and a later stop()
\* has found running false and is returning to the destructor.
C14_Witness ==
    /\ started /\ ~running
    /\ pc["main"] = "m_stop_test"
    /\ call["main"].ret = "m_destroyed"
    /\ pc["router"] = "r_joined" /\ pc["sub"] = "s_joined"
    /\ nCmdIn >= 1 /\ nTopicIn >= 1

\* C15: every channel-topic frame that is dropped (its suffix does not
\* parse, or its index is outside [0, N)) appends one entry with its topic
\* to the error log.
C15_DroppedChannelTopicIsLogged ==
    [][(/\ pc["sub"] = "s_route" /\ pc'["sub"] = "s_end"
        /\ IsPrefix(ZMQ_WAVEFORM_TOPIC_BASE, subMsg.topic))
          => errLog' = Append(errLog, subMsg.topic)
      ]_vars

\* C16: an update(P) with len(P) >= capacity has put an entry in the log by
\* the time it returns (checked on the ProtectedDimService buffers).
C16_TruncationIsLogged ==
    \A p \in Threads :
        (/\ pc[p] = "upd_unlock"
         /\ call[p].buf \in ProtectedBufs
         /\ Len(call[p].arg) >= Capacity(call[p].buf))
            => errLog # <<>>

\* C17: the held identity changes only in the command loop's capture: no
\* step of a sendCommand changes it.
C17_OnlyTheLoopChangesIdentity ==
    [][python_client_id' # python_client_id => pc["router"] = "r_capture"]_vars

\* C18: no thread holds client_id_mutex and the lock of a buffer at the same
\* time, and no thread holds the locks of two buffers.
C18_NoLockSpansAnother ==
    \A p \in Procs :
        /\ \A b \in BufNames : ~(client_id_mutex = p /\ mtx[b] = p)
        /\ \A b, o \in BufNames : (mtx[b] = p /\ mtx[o] = p) => b = o

\* C19: the command loop never calls recv on the command socket while an
\* invocation thread is between the first and the last send of its
\* three-part message.
C19_SocketUsedByOneThread ==
    [][(pc["router"] = "r_recv" /\ pc'["router"] # "r_recv")
          => \A t \in Threads : pc[t] \notin {"sc_send_delim", "sc_send_json"}
      ]_vars

\* C20: two envelopes of one command spec built by two threads never carry
\* the same id.
C20_ConcurrentIdsDistinct ==
    \A t, u \in Threads :
        (/\ t # u
         /\ inv[t].json # NoEnvelope /\ inv[u].json # NoEnvelope
         /\ inv[t].cmd = inv[u].cmd)
            => inv[t].json.id # inv[u].json.id


\* the sum of count[b] over the buffers of S
RECURSIVE SumOver(_, _)
SumOver(count, S) ==
    IF S = {} THEN 0
    ELSE LET b == CHOOSE x \in S : TRUE IN count[b] + SumOver(count, S \ {b})

\* the locations of an update call before its notification was sent
UpdBeforeNotify == {"upd_lock", "upd_copy", "upd_term", "upd_notify"}

\* C21 as stated: a buffer's service-changed notification is triggered after
\* update has released the buffer's lock, so the lock is free in the step
\* that sends it.
C21_NotifiesAfterUnlock ==
    [][\A b \in BufNames :
          serviceUpdates'[b] # serviceUpdates[b] => mtx[b] = NoOwner
      ]_vars

\* C21: update triggers the buffer's service-changed notification exactly
\* once per call (the notifications sent are the calls made less the calls
\* that have not reached theirs), and triggers it while the caller still
\* holds the buffer's lock: the lock is released only after it.
C21_NotifiesOnceUnderLock ==
    /\ [](SumOver(serviceUpdates, BufNames)
            = nUpdates - Cardinality({p \in Threads : pc[p] \in UpdBeforeNotify}))
    /\ [][\A b \in BufNames :
             /\ serviceUpdates'[b] # serviceUpdates[b]
                   => \E p \in Threads :
                         /\ pc[p] = "upd_notify" /\ call[p].buf = b
                         /\ mtx[b] = p /\ mtx'[b] = p
                         /\ pc'[p] = "upd_unlock"
                         /\ serviceUpdates'[b] = serviceUpdates[b] + 1
             /\ (mtx[b] # NoOwner /\ mtx'[b] = NoOwner)
                   => /\ pc[mtx[b]] = "upd_unlock"
                      /\ serviceUpdates'[b] = serviceUpdates[b]
         ]_vars

\* C21 happens: an update of a buffer has sent its notification and still
\* holds the buffer's lock, while another thread waits for that lock.
C21_Witness ==
    \E p, q \in Threads :
        /\ pc[p] = "upd_unlock" /\ mtx[call[p].buf] = p
        /\ serviceUpdates[call[p].buf] = 1
        /\ pc[q] = "upd_lock" /\ call[q].buf = call[p].buf


\* the locations of an update call where the caller holds the buffer's lock
UpdLocked == {"upd_copy", "upd_term", "upd_notify", "upd_unlock"}

\* C22: updates of one buffer are serialized.  At most one thread is inside
\* update of a buffer, and it owns the buffer's lock; the buffer's bytes
\* change only in the copy and terminator steps of that thread; from the
\* terminator to the release the buffer holds that thread's payload, cut to
\* the capacity, whole and with nothing of an earlier payload, and it holds
\* it when the lock is released, whichever of the command loop's reply or
\* parse error and an invocation thread's not-connected error it is.
C22_UpdatesAreSerialized ==
    /\ [](\A b \in BufNames : \A p, q \in Procs :
             /\ (pc[p] \in UpdLocked /\ call[p].buf = b) => mtx[b] = p
             /\ (pc[p] \in UpdLocked /\ pc[q] \in UpdLocked
                   /\ call[p].buf = b /\ call[q].buf = b) => p = q
             /\ (pc[p] \in UpdDone /\ call[p].buf = b)
                   => buffer[b] = StoredForm(call[p].arg, Capacity(b)))
    /\ [][\A b \in BufNames :
             /\ buffer'[b] # buffer[b]
                   => \E p \in Procs :
                         /\ mtx[b] = p /\ call[p].buf = b
                         /\ pc[p] \in {"upd_copy", "upd_term"} /\ pc'[p] # pc[p]
             /\ (mtx[b] # NoOwner /\ mtx'[b] = NoOwner)
                   => buffer'[b] = StoredForm(call[mtx[b]].arg, Capacity(b))
         ]_vars

\* C22 happens: the command loop has written a reply to ReplySink over an
\* earlier value and still holds the lock, while an invocation thread waits
\* for it with the not-connected error.
C22_Witness ==
    /\ pc["router"] \in UpdDone /\ call["router"].buf = "reply"
    /\ call["router"].arg = TEXT_PI
    /\ CStr(buffer["reply"]) = TEXT_PI
    /\ \E t \in Threads : pc[t] = "upd_lock" /\ OnNotConnectedPath(t)


\* a well-framed envelope that is a JSON object whose type is absent or a
\* string other than "reply": a handshake, or an envelope of unknown type
IsNoOpEnvelope(frame) ==
    /\ frame.n >= 3
    /\ frame.body.kind = "object"
    /\ frame.body.type.has # "other"
    /\ frame.body.type # Str(T_REPLY)

\* C23: while the command loop processes a handshake envelope, or another
\* JSON object whose type is neither "handshake" nor "reply", no buffer,
\* ReplySink included, changes or is locked or notified, nothing is sent
\* and nothing fails; the held identity changes in the capture step only,
\* to the sender's identity; the dispatch goes straight to the end of the
\* iteration.
C23_HandshakeOnlyCapturesIdentity ==
    [][IsNoOpEnvelope(routerMsg) =>
          /\ buffer' = buffer /\ serviceUpdates' = serviceUpdates /\ mtx' = mtx
          /\ routerOut' = routerOut /\ errLog' = errLog
          /\ ~aborted'
          /\ call'["router"] = NoCall
          /\ python_client_id' # python_client_id
                => (pc["router"] = "r_capture" /\ python_client_id' = routerMsg.id)
          /\ (pc["router"] = "r_capture" /\ pc'["router"] # "r_capture")
                => python_client_id' = routerMsg.id
          /\ (pc["router"] = "r_dispatch" /\ pc'["router"] # "r_dispatch")
                => pc'["router"] = "r_end"
      ]_vars

\* C23 happens: after a reply from worker A set ReplySink, a handshake of
\* worker B was processed to the end of the iteration: ReplySink still holds
\* the reply and the held identity is B's.
C23_Witness ==
    /\ pc["router"] = "r_end"
    /\ routerMsg.n = 3
    /\ routerMsg.body = Obj(Str(T_HANDSHAKE), Absent, Absent, Absent)
    /\ routerMsg.id = ID_B
    /\ python_client_id = ID_B
    /\ serviceUpdates["reply"] = 1
    /\ CStr(buffer["reply"]) = TEXT_PI


\* C24: once stop() has cleared running (it is then at its first join), both
\* loops exit, both joins finish and stop() returns to its caller.
C24_ShutdownCompletes ==
    (pc["main"] = "m_join_router")
        ~> (OwnerAtRest /\ pc["router"] = "r_joined" /\ pc["sub"] = "s_joined")


\* the owner of the lock process p is waiting for (NoOwner: p waits for no
\* lock, or the lock it asks for is free)
Awaited(p) ==
    IF pc[p] \in {"r_lock", "sc_lock"} THEN client_id_mutex
    ELSE IF pc[p] = "upd_lock" THEN mtx[call[p].buf]
    ELSE NoOwner

\* p waits for a lock held by q, directly or through at most k waiting threads
RECURSIVE WaitsOn(_, _, _)
WaitsOn(p, q, k) ==
    /\ k > 0
    /\ Awaited(p) # NoOwner
    /\ (Awaited(p) = q \/ WaitsOn(Awaited(p), q, k - 1))

\* C25: in no reachable state is there a cycle of threads each waiting for a
\* lock (the identity lock or a buffer's lock) that the next one holds, a
\* thread waiting for a lock it holds itself included; and no thread asks
\* for the identity lock while it holds a buffer's lock.
C25_NoLockCycle ==
    /\ \A p \in Procs : ~WaitsOn(p, p, Cardinality(Procs))
    /\ \A p \in Procs :
          pc[p] \in {"r_lock", "sc_lock"} => \A b \in BufNames : mtx[b] # p

\* C25 happens: an invocation thread holds the identity lock and ReplySink's
\* lock, the command loop and the other invocation thread wait for the
\* identity lock, and the topic loop holds the lock of a buffer.
C25_Witness ==
    \E t, u \in Threads :
        /\ t # u
        /\ client_id_mutex = t /\ mtx["reply"] = t
        /\ pc["router"] = "r_lock" /\ WaitsOn("router", t, 1)
        /\ pc[u] = "sc_lock" /\ WaitsOn(u, t, 1)
        /\ pc["sub"] \in UpdLocked /\ mtx[call["sub"].buf] = "sub"


\* C26: the parts sendCommand calls put on the command channel form whole
\* frames [identity, "", json], each sent by one call with no part of another
\* call in between (a frame still being sent is the last one, and its sender
\* is at its next send); from a call's not-connected check to its first send
\* the held identity does not change, and the identity part is that identity.
C26_FramesAreContiguous ==
    /\ [](\A i \in 1..Len(routerOut) :
             LET part == routerOut[i] IN
               /\ part.kind = "identity"
                     => /\ (i = 1 \/ routerOut[i - 1].kind = "json")
                        /\ (i = Len(routerOut) => pc[part.by] = "sc_send_delim")
               /\ part.kind = "delimiter"
                     => /\ i > 1
                        /\ routerOut[i - 1].kind = "identity"
                        /\ routerOut[i - 1].by = part.by
                        /\ (i = Len(routerOut) => pc[part.by] = "sc_send_json")
               /\ part.kind = "json"
                     => /\ i > 2
                        /\ routerOut[i - 1].kind = "delimiter"
                        /\ routerOut[i - 1].by = part.by)
    /\ [][\A t \in Threads :
             /\ (pc[t] = "sc_check" /\ pc'[t] = "sc_send_id")
                   => (python_client_id # EmptyId /\ python_client_id' = python_client_id)
             /\ (pc[t] = "sc_send_id" /\ pc'[t] = "sc_send_id")
                   => python_client_id' = python_client_id
             /\ (pc[t] = "sc_send_id" /\ pc'[t] # "sc_send_id")
                   => routerOut' = Append(routerOut,
                                          Part(t, "identity", python_client_id,
                                               NoEnvelope, TRUE))
         ]_vars

\* C26 happens: one thread has sent a whole frame to worker A and the other
\* thread, which went through the lock after it, has sent the identity (B's)
\* and the delimiter of its own.
C26_Witness ==
    \E t, u \in Threads :
        /\ t # u
        /\ Len(routerOut) = 5
        /\ \A i \in 1..3 : routerOut[i].by = t
        /\ routerOut[1].bytes = ID_A
        /\ routerOut[4].by = u /\ routerOut[4].bytes = ID_B
        /\ pc[u] = "sc_send_json"

====
